---- MODULE Spec2Model ----
(***************************************************************************)
(* A model of the overlay menu engine of src/src/lib.rs: the widget tree   *)
(* (Menu, Button, Text, Number<T>, Select<T>, Toggle), the focus stack and *)
(* the hold-to-activate controller OverlayNotification.                    *)
(*                                                                         *)
(* A Node (Rc<RefCell<Box<dyn MenuItem>>>) is a widget id; the heap is the *)
(* function w from ids to the widgets' fields.  One step of the model is   *)
(* one call of OverlayNotification::run with one input snapshot.           *)
(*                                                                         *)
(* A panic (an unwrap of Err/None, an arithmetic overflow in a build with  *)
(* overflow checks, a RefCell borrow conflict) ends the run() call where   *)
(* it is raised; what was assigned before it stays assigned.  Whether the  *)
(* host survives it depends on the build's panic strategy: the model lets  *)
(* later run() calls happen (an unwinding build whose host goes on), and a *)
(* behaviour that stops there is the aborting build.                       *)
(***************************************************************************)
EXTENDS Integers, Sequences, FiniteSets, TLC

VARIABLES
    w,              \* the heap: widget id -> the widget's fields
    root,           \* OverlayNotification.root
    stack,          \* OverlayNotification.stack, bottom first
    hud,            \* OverlayNotification.hud: <<>> is None, <<text>> is Some
    overflowChecks, \* the build: TRUE panics on integer overflow, FALSE wraps
    lastHold,       \* input.hold of the last run() call
    lastTrigger,    \* input.trigger as the last run() call gave it to
                    \* control; empty when it did not call control
    created,        \* what the last run() call did about the HUD handle
    panicked,       \* the last run() call ended in a panic
    changed,        \* what control returned to the last run() call
    pushed,         \* the frames the last run() call gave to hud.text
    calls,          \* the widget callbacks the last run() call invoked
    invoked,        \* the widgets whose control the last run() call
                    \* entered, in the order of the calls
    borrowFault,    \* the last run() call asked a RefCell for a borrow
                    \* that the borrows it then held exclude
    streak,         \* history: the current run of equal Left/Right-only ticks
    entered         \* history: <<the navigation state the last run() call
                    \* found>> when that call gave A alone to a Menu on a
                    \* focusable child; that followed by the navigation
                    \* state the call found when it is the next call and
                    \* gave B alone; else <<>>

vars == <<w, root, stack, hud, overflowChecks, lastHold, lastTrigger,
          created, panicked, changed, pushed, calls, invoked, borrowFault, streak, entered>>

-----------------------------------------------------------------------------
(* Bounds of the model. *)

\* The longest carousel Menu of the ring trees.
MaxItems == 3

\* The longest option list of a Select.
MaxOptions == 3

\* T of Number<T> is instantiated as u8: the largest value of T.
TMax == 255

-----------------------------------------------------------------------------
(* The input snapshot: gamepad::State. *)

\* The buttons whose trigger bit the widgets test.
TriggerButtons == {"A", "B", "Left", "Right", "Up", "Down"}

\* The buttons whose hold bit run() tests.
HoldButtons == {"L", "R"}

Inputs == [trigger : SUBSET TriggerButtons, hold : SUBSET HoldButtons]

\* Mutation of Gesture: intersects() in place of contains().
GestureEither(hold) == hold \cap {"L", "R"} # {}

\* input.hold.contains(B::L | B::R): every bit of the union is set.
Gesture(hold) == {"L", "R"} \subseteq hold

-----------------------------------------------------------------------------
(* The glyphs of wut::font::icons, as opaque placeholders. *)

BTN_LEFT == "{BTN_LEFT}"
BTN_RIGHT == "{BTN_RIGHT}"
KBD_RETURN == "{KBD_RETURN}"
ARROW_UP == "{ARROW_UP}"
ARROW_DOWN == "{ARROW_DOWN}"
ARROW_UP_DOWN == "{ARROW_UP_DOWN}"
WideSpace == "\\u3000"

-----------------------------------------------------------------------------
(* The constructors. *)

MenuNew(name, items) ==
    [kind |-> "Menu", name |-> name, items |-> items, pos |-> 0,
     focused |-> FALSE]

ButtonNew(text) == [kind |-> "Button", text |-> text]

\* The producer closure is outside the repository: it is taken to return
\* the same string on every call.
TextNew(out) == [kind |-> "Text", out |-> out]

NumberNew(text, value, inc, min, max) ==
    [kind |-> "Number", text |-> text, value |-> value, inc |-> inc,
     min |-> min, max |-> max]

SelectNew(text, options) ==
    [kind |-> "Select", text |-> text, options |-> options, index |-> 0]

ToggleNew(text, value) == [kind |-> "Toggle", text |-> text, value |-> value]

-----------------------------------------------------------------------------
(* The callbacks a control call invokes, in order. *)

CallUnit(id) == [widget |-> id, num |-> 0, flag |-> FALSE]
CallNum(id, n) == [widget |-> id, num |-> n, flag |-> FALSE]
CallFlag(id, b) == [widget |-> id, num |-> 0, flag |-> b]

-----------------------------------------------------------------------------
(* MenuItem::focusable and MenuItem::focus. *)

Focusable(self) == self.kind = "Menu"

\* Mutation of Focus: the flag is left as it is.
FocusLeaves(self) == self

Focus(self) ==
    IF self.kind = "Menu" THEN [self EXCEPT !.focused = TRUE] ELSE self

-----------------------------------------------------------------------------
(* render: the string as the sequence of its pieces. *)

NumberIcon(self) ==
    IF self.value = self.min THEN ARROW_UP
    ELSE IF self.value = self.max THEN ARROW_DOWN
    ELSE ARROW_UP_DOWN

SelectIcon(self) ==
    IF self.index = 0 THEN ARROW_UP
    ELSE IF self.index = Len(self.options) - 1 THEN ARROW_DOWN
    ELSE ARROW_UP_DOWN

RECURSIVE Render(_, _)
Render(ws, id) ==
    LET self == ws[id] IN
    CASE self.kind = "Menu" ->
            IF self.focused
            THEN <<BTN_LEFT, WideSpace>>
                 \o Render(ws, self.items[self.pos + 1])
                 \o <<WideSpace, BTN_RIGHT>>
            ELSE <<self.name, " ", KBD_RETURN>>
      [] self.kind = "Button" -> <<"<", self.text, ">">>
      [] self.kind = "Text" -> <<self.out>>
      [] self.kind = "Number" ->
            <<self.text, ": ", ToString(self.value), " ", NumberIcon(self)>>
      [] self.kind = "Select" ->
            <<self.text, ": ", self.options[self.index + 1], " ",
              SelectIcon(self)>>
      [] self.kind = "Toggle" ->
            <<self.text, " [", IF self.value THEN "X" ELSE "  ", "]">>

-----------------------------------------------------------------------------
(* control of the leaf widgets.  Each returns the widget after the call,   *)
(* the change flag, the callbacks invoked and whether the call panicked.   *)

Leaf(self, ch, cs) == [self |-> self, changed |-> ch, calls |-> cs, panic |-> FALSE]

LeafPanic(self) == [self |-> self, changed |-> FALSE, calls |-> <<>>, panic |-> TRUE]

ButtonControl(self, id, trigger) ==
    Leaf(self, FALSE, IF "A" \in trigger THEN <<CallUnit(id)>> ELSE <<>>)

\* Mutation of TextControl: the Text reports no change.
TextControlQuiet(self, id, trigger) == Leaf(self, FALSE, <<>>)

TextControl(self, id, trigger) == Leaf(self, TRUE, <<>>)

\* new += inc on u8: the sum, wrapped where the build does not check.
AddT(a, b) == (a + b) % (TMax + 1)

\* new -= inc on u8.
SubT(a, b) == (a - b) % (TMax + 1)

AddOverflows(a, b) == a + b > TMax

SubOverflows(a, b) == a - b < 0

\* The Up branch of Number::control, given that it completes.
NumberUp(self) ==
    LET new == AddT(self.value, self.inc) IN
    IF new <= self.max THEN [self EXCEPT !.value = new]
    ELSE [self EXCEPT !.value = self.max]

\* The Down branch of Number::control, given that it completes.
NumberDown(self) ==
    LET new == SubT(self.value, self.inc) IN
    IF new >= self.min /\ new < self.value THEN [self EXCEPT !.value = new]
    ELSE [self EXCEPT !.value = self.min]

\* Mutation of NumberControl: the Down test is an else-if of the Up test.
NumberControlElseIf(self, id, trigger) ==
    LET upPanic == /\ "Up" \in trigger
                   /\ overflowChecks
                   /\ AddOverflows(self.value, self.inc)
        down == "Down" \in trigger /\ "Up" \notin trigger
        downPanic == /\ down
                     /\ overflowChecks
                     /\ SubOverflows(self.value, self.inc)
        s2 == IF "Up" \in trigger /\ ~upPanic THEN NumberUp(self)
              ELSE IF down /\ ~downPanic THEN NumberDown(self)
              ELSE self
    IN  IF upPanic \/ downPanic THEN LeafPanic(s2)
        ELSE Leaf(s2, "Up" \in trigger \/ "Down" \in trigger,
                  IF "A" \in trigger THEN <<CallNum(id, s2.value)>> ELSE <<>>)

NumberControl(self, id, trigger) ==
    LET upPanic == /\ "Up" \in trigger
                   /\ overflowChecks
                   /\ AddOverflows(self.value, self.inc)
        s1 == IF "Up" \in trigger /\ ~upPanic THEN NumberUp(self) ELSE self
        downPanic == /\ ~upPanic
                     /\ "Down" \in trigger
                     /\ overflowChecks
                     /\ SubOverflows(s1.value, s1.inc)
        s2 == IF "Down" \in trigger /\ ~upPanic /\ ~downPanic
              THEN NumberDown(s1) ELSE s1
    IN  IF upPanic \/ downPanic THEN LeafPanic(s2)
        ELSE Leaf(s2, "Up" \in trigger \/ "Down" \in trigger,
                  IF "A" \in trigger THEN <<CallNum(id, s2.value)>> ELSE <<>>)

\* Mutation of SelectUp: the index wraps as a Menu position does.
SelectUpWraps(self) ==
    [self EXCEPT !.index = (self.index + 1) % Len(self.options)]

\* The Up branch of Select::control.
SelectUp(self) ==
    IF self.index < Len(self.options) - 1
    THEN [self EXCEPT !.index = self.index + 1] ELSE self

\* The Down branch of Select::control.
SelectDown(self) ==
    IF self.index > 0 THEN [self EXCEPT !.index = self.index - 1] ELSE self

SelectControl(self, id, trigger) ==
    LET s1 == IF "Up" \in trigger THEN SelectUp(self) ELSE self
        s2 == IF "Down" \in trigger THEN SelectDown(s1) ELSE s1
    IN  Leaf(s2, "Up" \in trigger \/ "Down" \in trigger,
             IF "A" \in trigger THEN <<CallNum(id, s2.index)>> ELSE <<>>)

\* Mutation of ToggleControl: the callback gets the value before the flip.
ToggleControlOldValue(self, id, trigger) ==
    IF "A" \in trigger
    THEN Leaf([self EXCEPT !.value = ~self.value], TRUE,
              <<CallFlag(id, self.value)>>)
    ELSE Leaf(self, FALSE, <<>>)

\* Mutation of ToggleControl: the flip is not reported.
ToggleControlSilent(self, id, trigger) ==
    IF "A" \in trigger
    THEN LET s1 == [self EXCEPT !.value = ~self.value]
         IN  Leaf(s1, FALSE, <<CallFlag(id, s1.value)>>)
    ELSE Leaf(self, FALSE, <<>>)

ToggleControl(self, id, trigger) ==
    IF "A" \in trigger
    THEN LET s1 == [self EXCEPT !.value = ~self.value]
         IN  Leaf(s1, TRUE, <<CallFlag(id, s1.value)>>)
    ELSE Leaf(self, FALSE, <<>>)

-----------------------------------------------------------------------------
(* Menu::control, and the dispatch of control on the widget's kind.        *)
(* mut is the set of nodes whose RefCell is mutably borrowed at the call.  *)
(* path lists the widgets whose control was entered below the call.        *)

Result(ws, st, ch, cs) ==
    [w |-> ws, stack |-> st, changed |-> ch, calls |-> cs, panic |-> FALSE,
     borrow |-> FALSE, path |-> <<>>]

Panic(ws, st) ==
    [w |-> ws, stack |-> st, changed |-> FALSE, calls |-> <<>>, panic |-> TRUE,
     borrow |-> FALSE, path |-> <<>>]

\* The panic of borrow() or borrow_mut() on a RefCell already mutably
\* borrowed.
BorrowPanic(ws, st) == [Panic(ws, st) EXCEPT !.borrow = TRUE]

\* Mutation of BackAllowed: the test is stack.len() > 0.
BackAllowedAtRoot(st) == Len(st) > 0

\* Mutation of Blur: Back leaves the focused flag set.
BlurKeeps(self) == self

\* self.focused = false
Blur(self) == [self EXCEPT !.focused = FALSE]

\* stack.len() > 1: only then does Back pop.
BackAllowed(st) == Len(st) > 1

\* (pos + len - 1) % len
MenuLeft(pos, len) == (pos + len - 1) % len

\* Mutation of MenuRight: the position stops at the last item.
MenuRightStops(pos, len) == IF pos + 1 < len THEN pos + 1 ELSE pos

\* (pos + 1) % len
MenuRight(pos, len) == (pos + 1) % len

\* Mutation of MenuBranch: Back is tested only together with a focusable
\* child.
MenuBranchBackLate(ws, self, trigger) ==
    IF Focusable(ws[self.items[self.pos + 1]]) /\ "A" \in trigger THEN "enter"
    ELSE IF Focusable(ws[self.items[self.pos + 1]]) /\ "B" \in trigger
         THEN "back"
    ELSE IF "Left" \in trigger THEN "left"
    ELSE IF "Right" \in trigger THEN "right"
    ELSE "delegate"

\* Mutation of MenuBranch: Back is tested before Enter.
MenuBranchBackFirst(ws, self, trigger) ==
    IF "B" \in trigger THEN "back"
    ELSE IF Focusable(ws[self.items[self.pos + 1]]) /\ "A" \in trigger
         THEN "enter"
    ELSE IF "Left" \in trigger THEN "left"
    ELSE IF "Right" \in trigger THEN "right"
    ELSE "delegate"

\* The branch of Menu::control the if-else chain selects.
MenuBranch(ws, self, trigger) ==
    IF Focusable(ws[self.items[self.pos + 1]]) /\ "A" \in trigger THEN "enter"
    ELSE IF "B" \in trigger THEN "back"
    ELSE IF "Left" \in trigger THEN "left"
    ELSE IF "Right" \in trigger THEN "right"
    ELSE "delegate"

RECURSIVE Control(_, _, _, _, _)

MenuControl(ws, id, trigger, st, mut) ==
    LET self == ws[id] IN
    IF self.pos >= Len(self.items) THEN Panic(ws, st)
    ELSE
    LET item == self.items[self.pos + 1]
        branch == MenuBranch(ws, self, trigger)
    IN  IF item \in mut THEN BorrowPanic(ws, st)
        ELSE CASE branch = "enter" ->
                    Result([ws EXCEPT ![item] = Focus(ws[item])],
                           Append(st, item), TRUE, <<>>)
               [] branch = "back" ->
                    IF BackAllowed(st)
                    THEN Result([ws EXCEPT ![id] = Blur(self)],
                                SubSeq(st, 1, Len(st) - 1), TRUE, <<>>)
                    ELSE Result(ws, st, FALSE, <<>>)
               [] branch = "left" ->
                    Result([ws EXCEPT ![id].pos =
                                MenuLeft(self.pos, Len(self.items))],
                           st, TRUE, <<>>)
               [] branch = "right" ->
                    Result([ws EXCEPT ![id].pos =
                                MenuRight(self.pos, Len(self.items))],
                           st, TRUE, <<>>)
               [] branch = "delegate" ->
                    Control(ws, item, trigger, st, mut \cup {item})

Control(ws, id, trigger, st, mut) ==
    LET self == ws[id]
        leaf == CASE self.kind = "Button" -> ButtonControl(self, id, trigger)
                  [] self.kind = "Text" -> TextControl(self, id, trigger)
                  [] self.kind = "Number" -> NumberControl(self, id, trigger)
                  [] self.kind = "Select" -> SelectControl(self, id, trigger)
                  [] self.kind = "Toggle" -> ToggleControl(self, id, trigger)
                  [] OTHER -> LeafPanic(self)
        r == IF self.kind = "Menu" THEN MenuControl(ws, id, trigger, st, mut)
             ELSE [w |-> [ws EXCEPT ![id] = leaf.self], stack |-> st,
                   changed |-> leaf.changed, calls |-> leaf.calls,
                   panic |-> leaf.panic, borrow |-> FALSE, path |-> <<>>]
    IN  [r EXCEPT !.path = <<id>> \o @]

-----------------------------------------------------------------------------
(* The widget trees the host builds at startup: a root id and the heap.    *)

ItemNames == <<"item1", "item2", "item3", "item4", "item5">>

OptionNames == <<"opt1", "opt2", "opt3", "opt4", "opt5">>

\* Number::new(text, value, inc, min, max) validates nothing; these are
\* arguments with min <= value <= max and inc > 0, T being u8.
NumberArgs ==
    { [value |-> 5, inc |-> 1, min |-> 0, max |-> 10],
      [value |-> 3, inc |-> 5, min |-> 0, max |-> 10],
      [value |-> 250, inc |-> 64, min |-> 100, max |-> 250] }

\* A root Menu over a sub-menu, a Button and a Text; the sub-menu holds a
\* Select and a sub-sub-menu of a Button and a Text.
NavTree ==
    [root |-> "main",
     nodes |-> ("main" :> MenuNew("Main", <<"video", "exit", "clock">>))
            @@ ("video" :> MenuNew("Video", <<"gamma", "adv">>))
            @@ ("adv" :> MenuNew("Advanced", <<"reset", "note">>))
            @@ ("gamma" :> SelectNew("Gamma", <<"Low", "High">>))
            @@ ("exit" :> ButtonNew("Exit"))
            @@ ("clock" :> TextNew("12:00"))
            @@ ("reset" :> ButtonNew("Reset"))
            @@ ("note" :> TextNew("v1.0"))]

\* A root Menu over one Number.
NumberTree(a) ==
    [root |-> "main",
     nodes |-> ("main" :> MenuNew("Main", <<"vol">>))
            @@ ("vol" :> NumberNew("Volume", a.value, a.inc, a.min, a.max))]

\* A root Menu over a Toggle and a Button.
ToggleTree(v) ==
    [root |-> "main",
     nodes |-> ("main" :> MenuNew("Main", <<"mute", "exit">>))
            @@ ("mute" :> ToggleNew("Mute", v))
            @@ ("exit" :> ButtonNew("Exit"))]

\* A root Menu over one Select of n options.
SelectTree(n) ==
    [root |-> "main",
     nodes |-> ("main" :> MenuNew("Main", <<"mode">>))
            @@ ("mode" :> SelectNew("Mode", SubSeq(OptionNames, 1, n)))]

\* A root Menu over n Buttons.
RingTree(n) ==
    [root |-> "main",
     nodes |-> ("main" :> MenuNew("Main", SubSeq(ItemNames, 1, n)))
            @@ [id \in {ItemNames[k] : k \in 1..n} |-> ButtonNew(id)]]

Trees ==
    {NavTree}
    \cup {NumberTree(a) : a \in NumberArgs}
    \cup {ToggleTree(v) : v \in BOOLEAN}
    \cup {SelectTree(n) : n \in 1..MaxOptions}
    \cup {RingTree(n) : n \in 1..MaxItems}

-----------------------------------------------------------------------------
(* OverlayNotification. *)

None == <<>>

Some(text) == <<text>>

NoStreak == [dir |-> "none", menu |-> "", start |-> 0, n |-> 0]

\* OverlayNotification::new(root): hud None, the root pushed and focused.
New(tree) ==
    /\ root = tree.root
    /\ stack = <<tree.root>>
    /\ w = [tree.nodes EXCEPT ![tree.root] = Focus(tree.nodes[tree.root])]
    /\ hud = None

\* The build's overflow checks are read by Number::control alone: a tree
\* without a Number behaves the same in both builds and is built in one.
HasNumber(tree) == \E id \in DOMAIN tree.nodes : tree.nodes[id].kind = "Number"

Init ==
    /\ \E tree \in Trees :
          /\ New(tree)
          /\ overflowChecks \in (IF HasNumber(tree) THEN BOOLEAN ELSE {FALSE})
    /\ lastHold = {}
    /\ lastTrigger = {}
    /\ created = "none"
    /\ panicked = FALSE
    /\ borrowFault = FALSE
    /\ changed = FALSE
    /\ pushed = <<>>
    /\ calls = <<>>
    /\ invoked = <<>>
    /\ streak = NoStreak
    /\ entered = <<>>

Top(st) == st[Len(st)]

\* The RefCells a render of id borrows: its own, and under a focused Menu
\* those of the render of the current child.
RECURSIVE RenderBorrows(_, _)
RenderBorrows(ws, id) ==
    IF ws[id].kind = "Menu" /\ ws[id].focused /\ ws[id].pos < Len(ws[id].items)
    THEN {id} \cup RenderBorrows(ws, ws[id].items[ws[id].pos + 1])
    ELSE {id}

\* Mutation of HeldAtRender: the RefMut of the widget control was called
\* on lives through the body of the if.
HeldAtRenderTop(st) == {Top(st)}

\* The mutable borrows alive when run() renders after control, st being
\* the stack control was called with: the RefMut is a temporary of the if
\* condition and is dropped before the body runs.
HeldAtRender(st) == {}

\* OverlayNotification::render: nothing without a handle; else the render
\* of the stack top is given to hud.text, whose result is dropped.  held
\* are the widgets mutably borrowed during the call.
OverlayRender(ws, st, h, held) ==
    IF h = None
    THEN [hud |-> h, frames |-> <<>>, panic |-> FALSE, borrow |-> FALSE]
    ELSE IF st = <<>>
    THEN [hud |-> h, frames |-> <<>>, panic |-> TRUE, borrow |-> FALSE]
    ELSE IF RenderBorrows(ws, Top(st)) \cap held # {}
    THEN [hud |-> h, frames |-> <<>>, panic |-> TRUE, borrow |-> TRUE]
    ELSE LET text == Render(ws, Top(st))
         IN  [hud |-> Some(text), frames |-> <<text>>, panic |-> FALSE,
              borrow |-> FALSE]

\* The trigger set of a tick that presses Left alone or Right alone.
StreakDir(trig) ==
    IF trig = {"Left"} THEN "Left"
    ELSE IF trig = {"Right"} THEN "Right"
    ELSE "none"

\* History: how many ticks in a row, this one included, gave the same Menu
\* on top of the stack the same single Left or Right press, and the
\* position that Menu had before the first of them.  A run is counted up
\* to the length of the Menu and then starts again.
NextStreak(inp) ==
    LET d == StreakDir(inp.trigger) IN
    IF stack = <<>> THEN NoStreak
    ELSE IF d = "none" \/ w[Top(stack)].kind # "Menu" THEN NoStreak
    ELSE IF /\ streak.dir = d
            /\ streak.menu = Top(stack)
            /\ streak.n < Len(w[Top(stack)].items)
         THEN [streak EXCEPT !.n = streak.n + 1]
         ELSE [dir |-> d, menu |-> Top(stack), start |-> w[Top(stack)].pos,
               n |-> 1]

\* The navigation state: the stack and every Menu's position and flag.
Nav(ws, st) ==
    [stack |-> st,
     pos |-> [id \in {i \in DOMAIN ws : ws[i].kind = "Menu"} |-> ws[id].pos],
     focused |-> [id \in {i \in DOMAIN ws : ws[i].kind = "Menu"} |->
                     ws[id].focused]]

\* History: the navigation state before a call that gives A alone to a
\* stack-top Menu positioned on a focusable child, and before the call
\* next to it when that one gives B alone.
NextEntered(inp) ==
    IF /\ inp.trigger = {"A"}
       /\ stack # <<>>
       /\ w[Top(stack)].kind = "Menu"
       /\ Focusable(w[w[Top(stack)].items[w[Top(stack)].pos + 1]])
    THEN <<Nav(w, stack)>>
    ELSE IF Len(entered) = 1 /\ inp.trigger = {"B"}
    THEN <<entered[1], Nav(w, stack)>>
    ELSE <<>>

\* control of the stack top, the top's RefCell mutably borrowed.
ControlTop(ws, st, trig) ==
    IF st = <<>> THEN Panic(ws, st)
    ELSE Control(ws, Top(st), trig, st, {Top(st)})

\* Mutation of RenderIfChanged: the render follows every control call
\* that returns.
RenderAlways(r, h, st) ==
    IF ~r.panic
    THEN OverlayRender(r.w, r.stack, h, HeldAtRender(st))
    ELSE [hud |-> h, frames |-> <<>>, panic |-> FALSE, borrow |-> FALSE]

\* The render after control: only when control returned true.
RenderIfChanged(r, h, st) ==
    IF r.changed /\ ~r.panic
    THEN OverlayRender(r.w, r.stack, h, HeldAtRender(st))
    ELSE [hud |-> h, frames |-> <<>>, panic |-> FALSE, borrow |-> FALSE]

\* run() from the control call on: h is the handle, frames the frames
\* pushed so far in this call and cr what the call did about the handle.
ControlAndRender(inp, h, frames, cr) ==
    \E r \in {ControlTop(w, stack, inp.trigger)} :
    \E rd \in {RenderIfChanged(r, h, stack)} :
        /\ w' = r.w
        /\ stack' = r.stack
        /\ hud' = rd.hud
        /\ created' = cr
        /\ panicked' = (r.panic \/ rd.panic)
        /\ borrowFault' = (r.borrow \/ rd.borrow)
        /\ changed' = r.changed
        /\ pushed' = frames \o rd.frames
        /\ calls' = r.calls
        /\ invoked' = r.path
        /\ lastHold' = inp.hold
        /\ lastTrigger' = inp.trigger
        /\ streak' = NextStreak(inp)
        /\ entered' = NextEntered(inp)
        /\ UNCHANGED <<root, overflowChecks>>

\* Mutation of Released: the release resets the navigation to the root.
ReleasedToRoot(ws, st) == [w |-> ws, stack |-> SubSeq(st, 1, 1)]

\* What the else branch of run() leaves of the widgets and the stack.
Released(ws, st) == [w |-> ws, stack |-> st]

\* run(): the gesture is not held; the handle is dropped.
TickIdle(inp) ==
    /\ ~Gesture(inp.hold)
    /\ hud' = None
    /\ w' = Released(w, stack).w
    /\ stack' = Released(w, stack).stack
    /\ created' = "none"
    /\ panicked' = FALSE
    /\ borrowFault' = FALSE
    /\ changed' = FALSE
    /\ pushed' = <<>>
    /\ calls' = <<>>
    /\ invoked' = <<>>
    /\ lastHold' = inp.hold
    /\ lastTrigger' = {}
    /\ streak' = NoStreak
    /\ entered' = <<>>
    /\ UNCHANGED <<root, overflowChecks>>

\* run(): the gesture is held, there is no handle and show() returns Err:
\* unwrap() panics before anything is assigned.
TickCreateFails(inp) ==
    /\ Gesture(inp.hold)
    /\ hud = None
    /\ created' = "failed"
    /\ panicked' = TRUE
    /\ borrowFault' = FALSE
    /\ changed' = FALSE
    /\ pushed' = <<>>
    /\ calls' = <<>>
    /\ invoked' = <<>>
    /\ lastHold' = inp.hold
    /\ lastTrigger' = {}
    /\ streak' = NoStreak
    /\ entered' = <<>>
    /\ UNCHANGED <<w, stack, hud, root, overflowChecks>>

\* run(): the gesture is held, there is no handle and show() returns Ok:
\* the handle is stored, the stack top rendered, then control runs.
TickActivate(inp) ==
    /\ Gesture(inp.hold)
    /\ hud = None
    /\ \E first \in {OverlayRender(w, stack, Some(<<>>), {})} :
          IF first.panic
          THEN /\ hud' = Some(<<>>)
               /\ created' = "ok"
               /\ panicked' = TRUE
               /\ borrowFault' = first.borrow
               /\ changed' = FALSE
               /\ pushed' = <<>>
               /\ calls' = <<>>
               /\ invoked' = <<>>
               /\ lastHold' = inp.hold
               /\ lastTrigger' = {}
               /\ streak' = NoStreak
               /\ entered' = <<>>
               /\ UNCHANGED <<w, stack, root, overflowChecks>>
          ELSE ControlAndRender(inp, first.hud, first.frames, "ok")

\* run(): the gesture is held and the handle is live.
TickActive(inp) ==
    /\ Gesture(inp.hold)
    /\ hud # None
    /\ ControlAndRender(inp, hud, <<>>, "none")

Next ==
    \E inp \in Inputs :
        \/ TickIdle(inp)
        \/ TickCreateFails(inp)
        \/ TickActivate(inp)
        \/ TickActive(inp)

Spec == Init /\ [][Next]_vars

-----------------------------------------------------------------------------
(* What the properties below read of a state. *)

\* The last run() call saw both L and R held.
BothHeld == "L" \in lastHold /\ "R" \in lastHold

\* The last run() call reached the control call of the stack top.
Delivered == BothHeld /\ created # "failed"

Live == hud # None

IdsOf(kind) == {id \in DOMAIN w : w[id].kind = kind}

\* The widget the delegate chain from id ends at: id itself unless it is a
\* Menu, else the same of its current child.
RECURSIVE Descend(_, _)
Descend(ws, id) ==
    IF ws[id].kind = "Menu" /\ ws[id].pos < Len(ws[id].items)
    THEN Descend(ws, ws[id].items[ws[id].pos + 1])
    ELSE id

\* The current child of the stack top.
CurrentChild == w[Top(stack)].items[w[Top(stack)].pos + 1]

-----------------------------------------------------------------------------
(* C1 *)

\* C1: the focus stack is never empty and its bottom element is the root
\* widget, in every state after OverlayNotification::new and any run()
\* calls.
C1_RootAtBottom == Len(stack) >= 1 /\ stack[1] = root

\* B was given to the root alone on the stack, and the stack is as it was.
C1_Witness ==
    /\ Delivered
    /\ "B" \in lastTrigger
    /\ Len(stack) = 1
    /\ ~changed

-----------------------------------------------------------------------------
(* C2 *)

\* C2: every Number has min <= value <= max after any sequence of control
\* calls with Up and Down triggers.
C2_NumberInRange ==
    \A id \in IdsOf("Number") :
        w[id].min <= w[id].value /\ w[id].value <= w[id].max

-----------------------------------------------------------------------------
(* C3 *)

\* C3: a run() call in which the creation of the HUD handle fails ends
\* without a panic.
C3_CreateFailureNotFatal == created = "failed" => ~panicked

-----------------------------------------------------------------------------
(* C4 *)

\* C4: after a run() call in which the creation failed, a call that still
\* sees the gesture held attempts no creation; and the first call that
\* sees the gesture held after a call that did not see it attempts one.
C4_NoRetryWhileHeld ==
    [][ /\ (created = "failed" /\ BothHeld /\ BothHeld') => created' = "none"
        /\ (~BothHeld /\ BothHeld') => created' # "none" ]_vars

-----------------------------------------------------------------------------
(* C5 *)

\* C5: where the creation does not fail, after every run() call the handle
\* is live exactly if that call saw both L and R held; a handle is created
\* exactly by a call that sees them held with no handle live, so a live
\* handle is kept by every later call of the hold and dropped by the first
\* call that does not see them held.
C5_HandleFollowsGesture ==
    [][ created' # "failed" =>
            /\ Live' <=> BothHeld'
            /\ created' = "ok" <=> (~Live /\ BothHeld') ]_vars

\* A call later than the first of a hold: the handle is live and was not
\* created by this call.
C5_Witness == Live /\ BothHeld /\ created = "none"

-----------------------------------------------------------------------------
(* C6 *)

\* C6: a run() call that does not see both L and R held drops the handle
\* and changes neither the stack nor any widget, invokes no callback and
\* does not panic, whatever it triggers; and the first frame of an
\* activation is the render of the stack top as the call found it.
C6_ReleaseKeepsNavigation ==
    [][ /\ ~BothHeld' =>
              /\ w' = w
              /\ stack' = stack
              /\ hud' = None
              /\ calls' = <<>>
              /\ ~panicked'
        /\ created' = "ok" =>
              /\ pushed' # <<>>
              /\ Head(pushed') = Render(w, Top(stack)) ]_vars

\* A released overlay whose navigation is inside a sub-menu.
C6_Witness == ~BothHeld /\ ~Live /\ Len(stack) > 1

-----------------------------------------------------------------------------
(* C7 *)

\* C7: when the stack holds only the root, a Menu, and control gets a
\* trigger set with B for which the Enter branch does not fire, the call
\* changes no widget and not the stack, returns false, pushes no frame
\* but the first frame of an activation, invokes no callback and does not
\* panic.
C7_BackAtRootNoOp ==
    [][ ( /\ BothHeld'
          /\ created' # "failed"
          /\ Len(stack) = 1
          /\ w[Top(stack)].kind = "Menu"
          /\ "B" \in lastTrigger'
          /\ ~("A" \in lastTrigger' /\ Focusable(w[CurrentChild])) )
        => /\ w' = w
           /\ stack' = stack
           /\ ~changed'
           /\ calls' = <<>>
           /\ ~panicked'
           /\ pushed' = IF created' = "ok"
                        THEN <<Render(w, Top(stack))>> ELSE <<>> ]_vars

\* A and B were given together to the root alone on the stack, positioned
\* on a child that cannot be entered.
C7_Witness ==
    /\ Delivered
    /\ {"A", "B"} \subseteq lastTrigger
    /\ Len(stack) = 1
    /\ ~Focusable(w[CurrentChild])
    /\ ~changed

-----------------------------------------------------------------------------
(* C8 *)

\* C8: the position of every Menu is an index of its items; N ticks in a
\* row that give a Menu of N items Right alone, or Left alone, bring its
\* position back to where it was; and each of these ticks returns true.
C8_CarouselCycles ==
    /\ \A id \in IdsOf("Menu") :
          0 <= w[id].pos /\ w[id].pos < Len(w[id].items)
    /\ streak.dir # "none" =>
          /\ changed
          /\ streak.n = Len(w[streak.menu].items) =>
                w[streak.menu].pos = streak.start

\* Three Right-only ticks went round a Menu of three items.
C8_Witness ==
    /\ streak.dir = "Right"
    /\ streak.n = 3
    /\ Len(w[streak.menu].items) = 3
    /\ w[streak.menu].pos = streak.start

-----------------------------------------------------------------------------
(* C9 *)

\* C9: the index of every Select is an index of its options after every
\* run() call; a control call with Up alone that reaches a Select at its
\* last index, or with Down alone a Select at index 0, leaves the index
\* as it is and returns true.
C9_SelectClamped ==
    [][ /\ \A id \in IdsOf("Select") :
              0 <= w'[id].index /\ w'[id].index < Len(w'[id].options)
        /\ \A id \in IdsOf("Select") :
              ( /\ BothHeld'
                /\ created' # "failed"
                /\ Descend(w, Top(stack)) = id )
              => /\ ( /\ lastTrigger' = {"Up"}
                      /\ w[id].index = Len(w[id].options) - 1 )
                    => (w'[id].index = w[id].index /\ changed')
                 /\ (lastTrigger' = {"Down"} /\ w[id].index = 0)
                    => (w'[id].index = w[id].index /\ changed') ]_vars

\* An activation tick gave Up alone to a Select of several options, the
\* current child of the stack top, at its last index: both frames of the
\* tick show that index.
C9_Witness ==
    /\ Delivered
    /\ lastTrigger = {"Up"}
    /\ changed
    /\ w[CurrentChild].kind = "Select"
    /\ Len(w[CurrentChild].options) > 1
    /\ w[CurrentChild].index = Len(w[CurrentChild].options) - 1
    /\ Len(pushed) = 2
    /\ pushed[1] = pushed[2]

-----------------------------------------------------------------------------
(* C10 *)

\* C10: a control call with Up and without Down that reaches a Number
\* whose value is max leaves the value max, and one with Down and without
\* Up that reaches a Number whose value is min leaves it min.
C10_ClampAtBounds ==
    [][ \A id \in IdsOf("Number") :
            ( /\ BothHeld'
              /\ created' # "failed"
              /\ Descend(w, Top(stack)) = id )
            => /\ ( /\ "Up" \in lastTrigger'
                    /\ "Down" \notin lastTrigger'
                    /\ w[id].value = w[id].max )
                  => w'[id].value = w[id].max
               /\ ( /\ "Down" \in lastTrigger'
                    /\ "Up" \notin lastTrigger'
                    /\ w[id].value = w[id].min )
                  => w'[id].value = w[id].min ]_vars

-----------------------------------------------------------------------------
(* C11 *)

\* The widgets whose control the last run() call entered.
Invoked == {invoked[k] : k \in 1..Len(invoked)}

\* How many times the last run() call entered the control of id.
TimesInvoked(id) == Cardinality({k \in 1..Len(invoked) : invoked[k] = id})

\* C11: a control call of a Toggle with A triggered flips its value,
\* invokes its callback once, with the value after the flip, and returns
\* true; one without A leaves the value, invokes nothing and returns
\* false.  A run() call that does not enter the Toggle's control leaves
\* its value.
C11_ToggleAlternates ==
    [][ \A id \in IdsOf("Toggle") :
            IF id \in Invoked'
            THEN /\ TimesInvoked(id)' = 1
                 /\ IF "A" \in lastTrigger'
                    THEN /\ w'[id].value = ~w[id].value
                         /\ calls' = <<CallFlag(id, ~w[id].value)>>
                         /\ changed'
                    ELSE /\ w'[id].value = w[id].value
                         /\ calls' = <<>>
                         /\ ~changed'
            ELSE w'[id].value = w[id].value ]_vars

\* A Toggle got A: its callback was invoked once with the value it has now.
C11_Witness ==
    \E id \in IdsOf("Toggle") :
        /\ id \in Invoked
        /\ "A" \in lastTrigger
        /\ calls = <<CallFlag(id, w[id].value)>>
        /\ changed

-----------------------------------------------------------------------------
(* C12 *)

\* What a run() call did to the Menu m that was the stack top, seen from
\* the states before and after it.
Pushed(m) == stack' = Append(stack, w[m].items[w[m].pos + 1])
Popped(m) == stack' = SubSeq(stack, 1, Len(stack) - 1)
Moved(m) == w'[m].pos # w[m].pos
ChildCalled(m) ==
    Len(invoked') >= 2 /\ invoked'[2] = w[m].items[w[m].pos + 1]

\* C12: a run() call that gives the stack-top Menu its input does what the
\* first of Enter (A triggered on a focusable current child), Back (B),
\* Left, Right, delegate whose condition holds prescribes, and nothing of
\* the others: Enter pushes the child, Back pops (unless the stack holds
\* the root alone), Left and Right set the position, and only delegate
\* enters the child's control; a Menu reached by delegation delegates.
C12_OneBranchInOrder ==
    [][ (BothHeld' /\ created' # "failed" /\ w[Top(stack)].kind = "Menu") =>
        LET m == Top(stack)
            n == Len(w[m].items)
            t == lastTrigger'
            child == w[m].items[w[m].pos + 1]
        IN  /\ invoked'[1] = m
            /\ IF "A" \in t /\ Focusable(w[child])
               THEN Pushed(m) /\ ~Moved(m) /\ ~ChildCalled(m) /\ changed'
               ELSE IF "B" \in t
               THEN /\ IF Len(stack) > 1 THEN Popped(m) /\ changed'
                       ELSE stack' = stack /\ ~changed'
                    /\ ~Moved(m) /\ ~ChildCalled(m)
               ELSE IF "Left" \in t
               THEN /\ w'[m].pos = (w[m].pos + n - 1) % n
                    /\ stack' = stack /\ ~ChildCalled(m) /\ changed'
               ELSE IF "Right" \in t
               THEN /\ w'[m].pos = (w[m].pos + 1) % n
                    /\ stack' = stack /\ ~ChildCalled(m) /\ changed'
               ELSE ChildCalled(m) /\ stack' = stack /\ ~Moved(m)
            /\ \A k \in 2..Len(invoked') :
                  w[invoked'[k]].kind = "Menu" =>
                      /\ ~Moved(invoked'[k])
                      /\ Len(invoked') > k
                      /\ invoked'[k + 1]
                            = w[invoked'[k]].items[w[invoked'[k]].pos + 1]
            /\ Cardinality({e \in {"push", "pop", "move", "child"} :
                    \/ e = "push" /\ Len(stack') > Len(stack)
                    \/ e = "pop" /\ Len(stack') < Len(stack)
                    \/ e = "move" /\ Moved(m)
                    \/ e = "child" /\ Len(invoked') >= 2}) <= 1 ]_vars

\* A, B, Left and Right were triggered together on a focusable child:
\* Enter alone fired, the Menu that got the input now lies under the top.
C12_Witness ==
    /\ Delivered
    /\ {"A", "B", "Left", "Right"} \subseteq lastTrigger
    /\ Len(stack) > 1
    /\ invoked = <<stack[Len(stack) - 1]>>
    /\ changed

-----------------------------------------------------------------------------
(* C13 *)

\* How many of push, pop, move and child call a run() call applied to the
\* Menu m that was the stack top.
MenuEffects(m) ==
    Cardinality({e \in {"push", "pop", "move", "child"} :
        \/ e = "push" /\ Len(stack') > Len(stack)
        \/ e = "pop" /\ Len(stack') < Len(stack)
        \/ e = "move" /\ Moved(m)
        \/ e = "child" /\ Len(invoked') >= 2})

\* The run() call gave the stack top its input and did not panic.
Controls == BothHeld' /\ created' # "failed" /\ ~panicked'

\* C13 as claimed: a tick applies at most one action to the Menu on top
\* of the stack, and a Number or a Select whose control gets Up and Down
\* together ends where it was, where Up alone or where Down alone would
\* have brought it (stated for the Numbers whose sum value + inc is in
\* the range of T, so that no overflow is involved).
C13_AtMostOneAction ==
    [][ Controls =>
        /\ w[Top(stack)].kind = "Menu" => MenuEffects(Top(stack)) <= 1
        /\ \A id \in IdsOf("Number") :
              ( /\ id \in Invoked'
                /\ {"Up", "Down"} \subseteq lastTrigger'
                /\ ~AddOverflows(w[id].value, w[id].inc) ) =>
                  w'[id].value \in {w[id].value, NumberUp(w[id]).value,
                                    NumberDown(w[id]).value}
        /\ \A id \in IdsOf("Select") :
              (id \in Invoked' /\ {"Up", "Down"} \subseteq lastTrigger') =>
                  w'[id].index \in {w[id].index, SelectUp(w[id]).index,
                                    SelectDown(w[id]).index} ]_vars

\* C13 as amended: a tick applies at most one action to the Menu on top
\* of the stack; a Number or a Select whose control gets Up and Down
\* together applies both, the increment first and the decrement to its
\* result, and one that gets only one of them applies that one.
C13_UpThenDown ==
    [][ Controls =>
        /\ w[Top(stack)].kind = "Menu" => MenuEffects(Top(stack)) <= 1
        /\ \A id \in IdsOf("Number") :
              id \in Invoked' =>
                  w'[id].value =
                      CASE {"Up", "Down"} \subseteq lastTrigger' ->
                              NumberDown(NumberUp(w[id])).value
                        [] "Up" \in lastTrigger' -> NumberUp(w[id]).value
                        [] "Down" \in lastTrigger' -> NumberDown(w[id]).value
                        [] OTHER -> w[id].value
        /\ \A id \in IdsOf("Select") :
              id \in Invoked' =>
                  w'[id].index =
                      CASE {"Up", "Down"} \subseteq lastTrigger' ->
                              SelectDown(SelectUp(w[id])).index
                        [] "Up" \in lastTrigger' -> SelectUp(w[id]).index
                        [] "Down" \in lastTrigger' -> SelectDown(w[id]).index
                        [] OTHER -> w[id].index ]_vars

\* A Number got Up and Down together and the call returned.
C13_Witness ==
    \E id \in IdsOf("Number") :
        /\ id \in Invoked
        /\ {"Up", "Down"} \subseteq lastTrigger
        /\ ~panicked
        /\ changed

-----------------------------------------------------------------------------
(* C14 *)

\* The run() call gives its input to a stack-top Menu whose current child
\* is a Text.
OnText ==
    /\ BothHeld'
    /\ created' # "failed"
    /\ w[Top(stack)].kind = "Menu"
    /\ w[CurrentChild].kind = "Text"

\* C14 as claimed: every run() call that gives its input to a stack-top
\* Menu positioned on a Text pushes a frame.
C14_TextAlwaysRenders == [][ OnText => pushed' # <<>> ]_vars

\* C14 as amended: such a call pushes a frame, except a call that finds
\* the handle live and the root alone on the stack and gets B; unless B,
\* Left or Right is triggered it enters the control of the Text, which
\* returns true.
C14_TextRendersUnlessBackAtRoot ==
    [][ OnText =>
        /\ pushed' # <<>>
              <=> ~("B" \in lastTrigger' /\ Len(stack) = 1 /\ Live)
        /\ lastTrigger' \cap {"B", "Left", "Right"} = {} =>
              /\ invoked' = <<Top(stack), CurrentChild>>
              /\ changed'
              /\ pushed'[Len(pushed')] = Render(w', Top(stack')) ]_vars

\* A tick later than the activation entered the control of a Text and
\* pushed a frame.
C14_Witness ==
    /\ Delivered
    /\ created = "none"
    /\ Len(invoked) = 2
    /\ w[invoked[2]].kind = "Text"
    /\ Len(pushed) = 1

-----------------------------------------------------------------------------
(* C15 *)

\* C15: a run() call with the gesture held and a handle enters control of
\* the widget that was the stack top before the call; the frames it pushes
\* are, on the activation only, the render of the stack top as the call
\* found it, followed, exactly when control returned true, by the render
\* of the stack top as control left it.
C15_ForwardThenRender ==
    [][ (BothHeld' /\ created' # "failed") =>
        /\ invoked' # <<>>
        /\ invoked'[1] = Top(stack)
        /\ lastTrigger' \in SUBSET TriggerButtons
        /\ pushed' =
              (IF created' = "ok" THEN <<Render(w, Top(stack))>> ELSE <<>>)
              \o (IF changed' THEN <<Render(w', Top(stack'))>> ELSE <<>>) ]_vars

\* An activation whose control call pushed a sub-menu: two frames, the
\* second of the new stack top.
C15_Witness ==
    /\ Delivered
    /\ created = "ok"
    /\ changed
    /\ Len(stack) = 2
    /\ Len(invoked) = 1
    /\ Len(pushed) = 2
    /\ pushed[1] # pushed[2]

-----------------------------------------------------------------------------
(* C17 *)

\* C17: no run() call asks for a borrow of a widget that is mutably
\* borrowed at that moment, in control or in the render that follows.
C17_NoDoubleBorrow == ~borrowFault

\* A call whose control went from the stack top through a nested Menu
\* into a leaf, three RefCells mutably borrowed at once, and rendered.
C17_Witness ==
    /\ Delivered
    /\ Len(invoked) = 3
    /\ changed
    /\ pushed # <<>>
    /\ ~panicked

-----------------------------------------------------------------------------
(* C16 *)

\* C16: a call that gives A alone to a stack-top Menu positioned on a
\* focusable child pushes that child with its focused flag set; when the
\* next call has the gesture held and gives B alone, it pops one level and
\* leaves the stack and every Menu's position and focused flag as they
\* were before the two calls.
C16_EnterBackIdentity ==
    /\ Len(entered) = 1 =>
          /\ changed
          /\ stack = Append(entered[1].stack,
                            w[Top(entered[1].stack)].items[
                                entered[1].pos[Top(entered[1].stack)] + 1])
          /\ w[Top(stack)].focused
    /\ Len(entered) = 2 =>
          /\ changed
          /\ stack = SubSeq(entered[2].stack, 1, Len(entered[2].stack) - 1)
          /\ Nav(w, stack) = entered[1]

\* The second call of a pair has acted: the call before gave A alone and
\* pushed a sub-menu, this one gave B alone.
C16_Witness ==
    /\ Len(entered) = 2
    /\ Delivered
    /\ lastTrigger = {"B"}
    /\ Len(entered[2].stack) = Len(entered[1].stack) + 1
    /\ Nav(w, stack) # entered[2]
-----------------------------------------------------------------------------
(* C18 *)

\* The state a leaf's control can change: a Number's value, a Select's
\* index, a Toggle's value.
LeafState(ws, id) ==
    CASE ws[id].kind = "Number" -> ws[id].value
      [] ws[id].kind = "Select" -> ws[id].index
      [] ws[id].kind = "Toggle" -> ws[id].value
      [] OTHER -> 0

\* C18: a run() call changes the state of a leaf only when the leaf is the
\* current child of the Menu on top of the stack.
C18_LeafChangesOnlyUnderTop ==
    [][ \A id \in DOMAIN w :
            LeafState(w', id) # LeafState(w, id) =>
                /\ w[Top(stack)].kind = "Menu"
                /\ CurrentChild = id ]_vars

-----------------------------------------------------------------------------
(* C19 *)

\* C19: a Menu's focused flag is set exactly when the Menu is on the
\* stack, the root's always; so the frame of the stack top is a carousel,
\* the current child between the two arrows.
C19_FocusedIffOnStack ==
    /\ \A id \in IdsOf("Menu") :
          w[id].focused <=> \E k \in 1..Len(stack) : stack[k] = id
    /\ w[root].focused
    /\ w[Top(stack)].kind = "Menu"
    /\ Render(w, Top(stack)) =
          <<BTN_LEFT, WideSpace>> \o Render(w, CurrentChild)
          \o <<WideSpace, BTN_RIGHT>>
    /\ \A k \in 1..Len(pushed) :
          /\ pushed[k][1] = BTN_LEFT
          /\ pushed[k][Len(pushed[k])] = BTN_RIGHT

\* A sub-menu of a sub-menu has been entered and left again: its flag is
\* clear while its parent and the root are on the stack.
C19_Witness ==
    /\ Len(entered) = 2
    /\ Len(stack) = 2
    /\ Len(entered[2].stack) = 3
    /\ ~w[Top(entered[2].stack)].focused
    /\ Live

-----------------------------------------------------------------------------
(* C20 *)

\* C20: after every run() call that leaves a handle, the text the handle
\* shows is the render of the stack top on the widgets as they are.
C20_HudShowsTop == Live => hud = Some(Render(w, Top(stack)))

\* A control call has changed a widget under the handle and the handle
\* shows the new state: the frame differs from the activation frame the
\* handle showed before.
C20_Witness ==
    /\ Live
    /\ Delivered
    /\ created = "ok"
    /\ Len(pushed) = 2
    /\ pushed[1] # pushed[2]
    /\ hud = Some(pushed[2])
    /\ Len(invoked) = 2

====
